---- MODULE Spec2Model ----
(***************************************************************************)
(* Model of the Flask dashboard server (server.py): the session-based      *)
(* login, the access gate, URL dispatch and the path-allowlisting file     *)
(* routes.  Python strings are sequences of one-character strings, so that *)
(* lower(), strip(), startswith(), endswith(), the substring test and the  *)
(* splitting of a URL into segments are computed, not assumed.             *)
(***************************************************************************)
EXTENDS Integers, Sequences, FiniteSets, TLC

VARIABLES session, fs, req, resp, log, pre, hist, flight

vars == <<session, fs, req, resp, log, pre, hist, flight>>

(***************************************************************************)
(* String literals of the program, as character sequences.                 *)
(***************************************************************************)
w_api == <<"a","p","i">>
w_task == <<"t","a","s","k">>
w_doc == <<"d","o","c">>
w_static == <<"s","t","a","t","i","c">>
w_login == <<"l","o","g","i","n">>
w_logout == <<"l","o","g","o","u","t">>
w_health == <<"h","e","a","l","t","h">>
w_dashboard_data_json == <<"d","a","s","h","b","o","a","r","d","-","d","a","t","a",".","j","s","o","n">>
w_index_html == <<"i","n","d","e","x",".","h","t","m","l">>
w_package_json == <<"p","a","c","k","a","g","e",".","j","s","o","n">>
w_json_ext == <<".","j","s","o","n">>
w_dotdot == <<".",".">>
w_dot == <<".">>
w_active == <<"a","c","t","i","v","e">>
w_next == <<"n","e","x","t">>
w_waiting == <<"w","a","i","t","i","n","g">>
w_completed == <<"c","o","m","p","l","e","t","e","d">>
w_rafy == <<"r","a","f","y">>
w_ryan == <<"r","y","a","n">>
w_youtube_books == <<"y","o","u","t","u","b","e","-","b","o","o","k","s">>
w_CURRENT_SYSTEM_SUMMARY_md == <<"C","U","R","R","E","N","T","_","S","Y","S","T","E","M","_","S","U","M","M","A","R","Y",".","m","d">>
w_shorts == <<"s","h","o","r","t","s">>
w_docs == <<"d","o","c","s">>
w_book_recommendation_proposal_md == <<"b","o","o","k","_","r","e","c","o","m","m","e","n","d","a","t","i","o","n","_","p","r","o","p","o","s","a","l",".","m","d">>
w_DEPLOY_md == <<"D","E","P","L","O","Y",".","m","d">>
w_knowledge == <<"k","n","o","w","l","e","d","g","e">>
w_youtube_md == <<"y","o","u","t","u","b","e",".","m","d">>
w_infra_md == <<"i","n","f","r","a",".","m","d">>
w_tasks == <<"t","a","s","k","s">>
w_clawd == <<"c","l","a","w","d">>
w_dashboard == <<"d","a","s","h","b","o","a","r","d">>
w_benji2026 == <<"b","e","n","j","i","2","0","2","6">>

(***************************************************************************)
(* Python str operations.                                                  *)
(***************************************************************************)
UpperLetters == <<"A","B","C","D","E","F","G","H","I","J","K","L","M","N","O","P","Q","R","S","T","U","V","W","X","Y","Z">>

LowerLetters == <<"a","b","c","d","e","f","g","h","i","j","k","l","m","n","o","p","q","r","s","t","u","v","w","x","y","z">>

LowerChar(c) ==
  IF \E i \in 1..26 : UpperLetters[i] = c
  THEN LowerLetters[CHOOSE i \in 1..26 : UpperLetters[i] = c]
  ELSE c

\* str.lower()
Lower(s) == [i \in 1..Len(s) |-> LowerChar(s[i])]

IsSpace(c) == c \in {" ", "\t", "\n"}

RECURSIVE LStrip(_)
LStrip(s) == IF s # <<>> /\ IsSpace(Head(s)) THEN LStrip(Tail(s)) ELSE s

RECURSIVE RStrip(_)
RStrip(s) ==
  IF s # <<>> /\ IsSpace(s[Len(s)]) THEN RStrip(SubSeq(s, 1, Len(s) - 1)) ELSE s

\* str.strip()
Strip(s) == RStrip(LStrip(s))

\* str.startswith(p)
StartsWith(s, p) == Len(p) <= Len(s) /\ SubSeq(s, 1, Len(p)) = p

\* str.endswith(p)
EndsWith(s, p) ==
  Len(p) <= Len(s) /\ SubSeq(s, Len(s) - Len(p) + 1, Len(s)) = p

\* p in s (substring)
Contains(s, p) ==
  \E i \in 1..(Len(s) - Len(p) + 1) : SubSeq(s, i, i + Len(p) - 1) = p

\* s.split("/")
RECURSIVE SplitSlash(_)
SplitSlash(s) ==
  IF \A i \in 1..Len(s) : s[i] # "/"
  THEN <<s>>
  ELSE LET k == CHOOSE i \in 1..Len(s) :
                  s[i] = "/" /\ \A j \in 1..(i - 1) : s[j] # "/"
       IN  <<SubSeq(s, 1, k - 1)>> \o SplitSlash(SubSeq(s, k + 1, Len(s)))

\* "/".join(segs)
RECURSIVE JoinSlash(_)
JoinSlash(segs) ==
  IF segs = <<>> THEN <<>>
  ELSE IF Len(segs) = 1 THEN segs[1]
  ELSE segs[1] \o <<"/">> \o JoinSlash(Tail(segs))

\* dict.get(k, default), dict.pop(k, None), d[k] = v
DictGet(d, k, default) == IF k \in DOMAIN d THEN d[k] ELSE default

DictPop(d, k) == [x \in (DOMAIN d) \ {k} |-> d[x]]

DictSet(d, k, v) == [x \in (DOMAIN d) \cup {k} |-> IF x = k THEN v ELSE d[x]]

EmptyDict == [x \in {} |-> TRUE]

(***************************************************************************)
(* Configuration.                                                          *)
(***************************************************************************)
\* app.config['PERMANENT_SESSION_LIFETIME'], in seconds (30 days)
PERMANENT_SESSION_LIFETIME == 60 * 60 * 24 * 30

\* Physical paths are sequences of segments, from the filesystem root.
base_dir == <<w_clawd>>

DASHBOARD_DIR == <<w_clawd, w_dashboard>>

TASKS_DIR == base_dir \o <<w_tasks>>

AUTH_PASSWORD == w_benji2026

valid_users == {w_rafy, w_ryan}

allowed_folders == {w_active, w_next, w_waiting, w_completed}

\* The keys of allowed_docs and the path each is mapped to.
allowed_docs ==
  [k \in { JoinSlash(<<w_youtube_books, w_CURRENT_SYSTEM_SUMMARY_md>>),
           JoinSlash(<<w_shorts, w_docs, w_book_recommendation_proposal_md>>),
           JoinSlash(<<w_shorts, w_DEPLOY_md>>),
           JoinSlash(<<w_knowledge, w_youtube_md>>),
           JoinSlash(<<w_knowledge, w_infra_md>>) } |-> base_dir \o SplitSlash(k)]

EXTERNAL_URL == "https://raom.kr"

(***************************************************************************)
(* The filesystem: the regular files that exist, and those of them whose   *)
(* open()/read() raises (no permission, not UTF-8).  A directory is a      *)
(* proper prefix of an existing file.  The kernel resolves "." and "..".   *)
(***************************************************************************)
RECURSIVE OsResolveFrom(_, _)
OsResolveFrom(p, acc) ==
  IF p = <<>> THEN acc
  ELSE IF Head(p) = w_dot \/ Head(p) = <<>> THEN OsResolveFrom(Tail(p), acc)
  ELSE IF Head(p) = w_dotdot
       THEN OsResolveFrom(Tail(p), IF acc = <<>> THEN acc ELSE SubSeq(acc, 1, Len(acc) - 1))
  ELSE OsResolveFrom(Tail(p), Append(acc, Head(p)))

OsResolve(p) == OsResolveFrom(p, <<>>)

IsPrefix(d, p) == Len(d) <= Len(p) /\ SubSeq(p, 1, Len(d)) = d

IsFile(f, p) == OsResolve(p) \in f.files

IsDir(f, p) == \E x \in f.files : IsPrefix(OsResolve(p), x) /\ x # OsResolve(p)

\* Path.exists()
Exists(f, p) == IsFile(f, p) \/ IsDir(f, p)

\* open(p).read() returns the content instead of raising
Readable(f, p) == IsFile(f, p) /\ OsResolve(p) \notin f.noread

(***************************************************************************)
(* Responses, and what a handler did on the way to its response.           *)
(***************************************************************************)
NoResponse ==
  [status |-> 0, kind |-> "none", error |-> "", location |-> "",
   showError |-> FALSE, content |-> <<>>, filename |-> <<>>,
   folder |-> <<>>, path |-> <<>>]

\* jsonify({"error": msg}), status
JsonError(msg, status) ==
  [NoResponse EXCEPT !.status = status, !.kind = "json_error", !.error = msg]

\* redirect(location)
Redirect(location) ==
  [NoResponse EXCEPT !.status = 302, !.kind = "redirect", !.location = location]

\* render_template_string(LOGIN_PAGE, error=...)
LoginPage(error) ==
  [NoResponse EXCEPT !.status = 200, !.kind = "login_page", !.showError = error]

\* werkzeug NotFound
NotFound == [NoResponse EXCEPT !.status = 404, !.kind = "not_found"]

\* an exception that leaves a view function
InternalServerError == [NoResponse EXCEPT !.status = 500, !.kind = "internal_error"]

\* the content of a file is identified with the file it was read from
FileResponse(p) ==
  [NoResponse EXCEPT !.status = 200, !.kind = "file", !.content = OsResolve(p)]

Op(name, p) == [op |-> name, path |-> p]

Result(r, l, s) == [resp |-> r, log |-> l, session |-> s]

(***************************************************************************)
(* werkzeug: posixpath.normpath, safe_join and send_from_directory.        *)
(***************************************************************************)
RECURSIVE NormComps(_, _, _)
NormComps(comps, acc, initial_slashes) ==
  IF comps = <<>> THEN acc
  ELSE LET comp == Head(comps) IN
       IF comp = <<>> \/ comp = w_dot THEN NormComps(Tail(comps), acc, initial_slashes)
       ELSE IF \/ comp # w_dotdot
               \/ (~initial_slashes /\ acc = <<>>)
               \/ (acc # <<>> /\ acc[Len(acc)] = w_dotdot)
            THEN NormComps(Tail(comps), Append(acc, comp), initial_slashes)
       ELSE IF acc # <<>>
            THEN NormComps(Tail(comps), SubSeq(acc, 1, Len(acc) - 1), initial_slashes)
       ELSE NormComps(Tail(comps), acc, initial_slashes)

NormPath(p) ==
  IF p = <<>> THEN w_dot
  ELSE LET initial_slashes == StartsWith(p, <<"/">>)
           joined == JoinSlash(NormComps(SplitSlash(p), <<>>, initial_slashes))
           out == IF initial_slashes THEN <<"/">> \o joined ELSE joined
       IN  IF out = <<>> THEN w_dot ELSE out

\* safe_join without the normalisation and the escape test
safe_join_unchecked(directory, filename) == directory \o SplitSlash(filename)

\* the joined path, or <<>> for None
safe_join(directory, filename) ==
  LET name == IF filename # <<>> THEN NormPath(filename) ELSE filename IN
  IF \/ StartsWith(name, <<"/">>)
     \/ name = w_dotdot
     \/ StartsWith(name, w_dotdot \o <<"/">>)
  THEN <<>>
  ELSE directory \o SplitSlash(name)

send_from_directory(f, s, directory, filename) ==
  LET p == safe_join(directory, filename) IN
  IF p = <<>>
  THEN Result(NotFound, <<Op("safe_join", <<>>)>>, s)
  ELSE IF ~IsFile(f, p)
  THEN Result(NotFound, <<Op("safe_join", <<>>), Op("isfile", p)>>, s)
  ELSE IF ~Readable(f, p)
  THEN Result(InternalServerError,
              <<Op("safe_join", <<>>), Op("isfile", p), Op("read", p)>>, s)
  ELSE Result(FileResponse(p),
              <<Op("safe_join", <<>>), Op("isfile", p), Op("read", p)>>, s)

\* the lifetime Flask gives the session cookie: PERMANENT_SESSION_LIFETIME
\* for a permanent session, none (0, a browser-session cookie) otherwise
SessionLifetime(s) ==
  IF DictGet(s, "_permanent", FALSE) THEN PERMANENT_SESSION_LIFETIME ELSE 0

(***************************************************************************)
(* The view functions.  Each takes the session and the filesystem as the   *)
(* request finds them and yields the response, the checks and filesystem   *)
(* accesses it made, in order, and the session it leaves.                  *)
(***************************************************************************)
is_authenticated(s) == DictGet(s, "authenticated", FALSE)

\* the decorator, dropping the session of a caller it turns away
login_required_resets(s, request_path, inner) ==
  IF ~is_authenticated(s)
  THEN IF StartsWith(request_path, <<"/">> \o w_api \o <<"/">>)
       THEN Result(JsonError("Unauthorized", 401), <<>>, EmptyDict)
       ELSE Result(Redirect("/login"), <<>>, EmptyDict)
  ELSE inner

\* the decorator: inner is the result of the wrapped view function
login_required(s, request_path, inner) ==
  IF ~is_authenticated(s)
  THEN IF StartsWith(request_path, <<"/">> \o w_api \o <<"/">>)
       THEN Result(JsonError("Unauthorized", 401), <<>>, s)
       ELSE Result(Redirect("/login"), <<>>, s)
  ELSE inner

\* the test of line 122 with the username lowercased but not stripped
CredentialsValidUnstripped(form) ==
  LET username == Lower(DictGet(form, "username", <<>>))
      password == DictGet(form, "password", <<>>)
  IN  username \in valid_users /\ password = AUTH_PASSWORD

\* the test of line 122 without its username half
CredentialsValidPasswordOnly(form) ==
  DictGet(form, "password", <<>>) = AUTH_PASSWORD

\* the test of line 122
CredentialsValid(form) ==
  LET username == Strip(Lower(DictGet(form, "username", <<>>)))
      password == DictGet(form, "password", <<>>)
  IN  username \in valid_users /\ password = AUTH_PASSWORD

\* the threshold test, off by one
ThresholdReachedLate(attempts) == attempts > 3

\* the test of line 135
ThresholdReached(attempts) == attempts >= 3

\* the success branch without line 124
login_success_keeps_attempts(s, username) ==
  LET s2 == DictSet(s, "_permanent", TRUE)
      s3 == DictSet(s2, "authenticated", TRUE)
      s4 == DictSet(s3, "username", username)
  IN  Result(Redirect("/"), <<>>, s4)

\* lines 123-128: the branch taken with valid credentials
login_success(s, username) ==
  LET s1 == DictPop(s, "login_attempts")
      s2 == DictSet(s1, "_permanent", TRUE)
      s3 == DictSet(s2, "authenticated", TRUE)
      s4 == DictSet(s3, "username", username)
  IN  Result(Redirect("/"), <<>>, s4)

\* the failure branch without the pop of line 136
login_failure_keeps_count(s) ==
  LET attempts == DictGet(s, "login_attempts", 0) + 1
      s1 == DictSet(s, "login_attempts", attempts)
  IN  IF ThresholdReached(attempts)
      THEN Result(Redirect(EXTERNAL_URL), <<>>, s1)
      ELSE Result(LoginPage(TRUE), <<>>, s1)

\* lines 130-139: the branch taken otherwise
login_failure(s) ==
  LET attempts == DictGet(s, "login_attempts", 0) + 1
      s1 == DictSet(s, "login_attempts", attempts)
  IN  IF ThresholdReached(attempts)
      THEN Result(Redirect(EXTERNAL_URL), <<>>, DictPop(s1, "login_attempts"))
      ELSE Result(LoginPage(TRUE), <<>>, s1)

\* login counting a failure only when the username is a valid one
login_counts_known_users_only(s, method, form) ==
  IF method = "POST"
  THEN IF CredentialsValid(form)
       THEN login_success(s, Strip(Lower(DictGet(form, "username", <<>>))))
       ELSE IF Strip(Lower(DictGet(form, "username", <<>>))) \in valid_users
       THEN login_failure(s)
       ELSE Result(LoginPage(TRUE), <<>>, s)
  ELSE Result(LoginPage(FALSE), <<>>, s)

\* login refusing valid credentials once two failures are counted
login_locks_out(s, method, form) ==
  IF method = "POST"
  THEN IF CredentialsValid(form) /\ DictGet(s, "login_attempts", 0) < 2
       THEN login_success(s, Strip(Lower(DictGet(form, "username", <<>>))))
       ELSE login_failure(s)
  ELSE Result(LoginPage(FALSE), <<>>, s)

login(s, method, form) ==
  IF method = "POST"
  THEN IF CredentialsValid(form)
       THEN login_success(s, Strip(Lower(DictGet(form, "username", <<>>))))
       ELSE login_failure(s)
  ELSE Result(LoginPage(FALSE), <<>>, s)

\* logout without session.clear()
logout_keeps_session(s) == Result(Redirect("/"), <<>>, s)

\* logout removing the login keys only
logout_keeps_attempts(s) ==
  Result(Redirect("/"), <<>>,
         DictPop(DictPop(DictPop(s, "authenticated"), "username"), "_permanent"))

logout(s) == Result(Redirect("/"), <<>>, EmptyDict)

index(f, s) ==
  login_required(s, <<"/">>, send_from_directory(f, s, DASHBOARD_DIR, w_index_html))

dashboard_data(f, s) ==
  login_required(s, <<"/">> \o w_dashboard_data_json,
                 send_from_directory(f, s, DASHBOARD_DIR, w_dashboard_data_json))

\* static_files with "or" for the "and" of line 168
static_files_or(f, s, filename) ==
  IF /\ EndsWith(filename, w_json_ext) \/ filename # w_package_json
     /\ ~is_authenticated(s)
  THEN Result(JsonError("Unauthorized", 401), <<>>, s)
  ELSE send_from_directory(f, s, DASHBOARD_DIR, filename)

static_files(f, s, filename) ==
  IF /\ EndsWith(filename, w_json_ext)
     /\ filename # w_package_json
     /\ ~is_authenticated(s)
  THEN Result(JsonError("Unauthorized", 401), <<>>, s)
  ELSE send_from_directory(f, s, DASHBOARD_DIR, filename)

\* a traversal test that looks for a whole ".." name only
HasTraversalWholeName(x) == x = w_dotdot

\* '..' in x
HasTraversal(x) == Contains(x, w_dotdot)

\* the folder test made case-insensitive
FolderAllowedAnyCase(folder) == Lower(folder) \in allowed_folders

\* folder in allowed_folders
FolderAllowed(folder) == folder \in allowed_folders

\* the body of get_task_content, inside the decorator
task_content(f, s, folder, filename) ==
  LET file_path == TASKS_DIR \o <<folder, filename>>
      l1 == <<Op("traversal_check", <<>>)>>
      l2 == Append(l1, Op("folder_allowlist", <<>>))
      l3 == Append(l2, Op("exists", file_path))
      l4 == Append(l3, Op("read", file_path))
  IN  IF HasTraversal(folder) \/ HasTraversal(filename)
      THEN Result(JsonError("Invalid path", 400), l1, s)
      ELSE IF ~FolderAllowed(folder)
      THEN Result(JsonError("Invalid folder", 400), l2, s)
      ELSE IF ~Exists(f, file_path)
      THEN Result(JsonError("File not found", 404), l3, s)
      ELSE IF ~Readable(f, file_path)
      THEN Result(JsonError("str(e)", 500), l4, s)
      ELSE Result([NoResponse EXCEPT !.status = 200, !.kind = "task_json",
                                     !.content = OsResolve(file_path),
                                     !.filename = filename, !.folder = folder],
                  l4, s)

get_task_content(f, s, request_path, folder, filename) ==
  login_required(s, request_path, task_content(f, s, folder, filename))

\* get_doc_content without the existence test of lines 229-230
doc_content_unchecked(f, s, doc_path) ==
  LET l1 == <<Op("traversal_check", <<>>)>>
      l2 == Append(l1, Op("doc_allowlist", <<>>))
  IN  IF HasTraversal(doc_path)
      THEN Result(JsonError("Invalid path", 400), l1, s)
      ELSE IF doc_path \notin DOMAIN allowed_docs
      THEN Result(JsonError("Document not allowed", 403), l2, s)
      ELSE LET file_path == allowed_docs[doc_path]
               l4 == Append(l2, Op("read", file_path))
           IN  IF ~Readable(f, file_path)
               THEN Result(JsonError("str(e)", 500), l4, s)
               ELSE Result([NoResponse EXCEPT !.status = 200, !.kind = "doc_json",
                                              !.content = OsResolve(file_path),
                                              !.path = doc_path,
                                              !.filename = file_path[Len(file_path)]],
                           l4, s)

\* the body of get_doc_content, inside the decorator
doc_content(f, s, doc_path) ==
  LET l1 == <<Op("traversal_check", <<>>)>>
      l2 == Append(l1, Op("doc_allowlist", <<>>))
  IN  IF HasTraversal(doc_path)
      THEN Result(JsonError("Invalid path", 400), l1, s)
      ELSE IF doc_path \notin DOMAIN allowed_docs
      THEN Result(JsonError("Document not allowed", 403), l2, s)
      ELSE LET file_path == allowed_docs[doc_path]
               l3 == Append(l2, Op("exists", file_path))
               l4 == Append(l3, Op("read", file_path))
           IN  IF ~Exists(f, file_path)
               THEN Result(JsonError("File not found", 404), l3, s)
               ELSE IF ~Readable(f, file_path)
               THEN Result(JsonError("str(e)", 500), l4, s)
               ELSE Result([NoResponse EXCEPT !.status = 200, !.kind = "doc_json",
                                              !.content = OsResolve(file_path),
                                              !.path = doc_path,
                                              !.filename = file_path[Len(file_path)]],
                           l4, s)

get_doc_content(f, s, request_path, doc_path) ==
  login_required(s, request_path, doc_content(f, s, doc_path))

health(s) ==
  Result([NoResponse EXCEPT !.status = 200, !.kind = "health_json"], <<>>, s)

(***************************************************************************)
(* URL dispatch (the @app.route rules; a rule with more static parts wins  *)
(* over the catch-all /<path:filename>).                                   *)
(***************************************************************************)
PathRest(path) == Tail(path)

PathArg(rest, prefix) == SubSeq(rest, Len(prefix) + 1, Len(rest))

\* <path:...> matches a non-empty string that does not start with a slash
MatchesPathConverter(a) == a # <<>> /\ a[1] # "/"

api_doc_prefix == w_api \o <<"/">> \o w_doc \o <<"/">>

flask_static_prefix == w_static \o <<"/">>

\* the task rule as if <filename> were a <path:filename>
TaskRuleMatchesPrefix(segs) ==
  /\ Len(segs) >= 4
  /\ segs[1] = w_api /\ segs[2] = w_task
  /\ segs[3] # <<>> /\ segs[4] # <<>>

\* /api/task/<folder>/<filename>: each argument is one non-empty segment
TaskRuleMatches(segs) ==
  /\ Len(segs) = 4
  /\ segs[1] = w_api /\ segs[2] = w_task
  /\ segs[3] # <<>> /\ segs[4] # <<>>

Endpoint(path) ==
  LET rest == PathRest(path)
      segs == SplitSlash(rest)
  IN  IF rest = <<>> THEN "index"
      ELSE IF rest = w_login THEN "login"
      ELSE IF rest = w_logout THEN "logout"
      ELSE IF rest = w_health THEN "health"
      ELSE IF rest = w_dashboard_data_json THEN "dashboard_data"
      ELSE IF TaskRuleMatches(segs) THEN "get_task_content"
      ELSE IF /\ StartsWith(rest, api_doc_prefix)
              /\ MatchesPathConverter(PathArg(rest, api_doc_prefix))
           THEN "get_doc_content"
      ELSE IF /\ StartsWith(rest, flask_static_prefix)
              /\ MatchesPathConverter(PathArg(rest, flask_static_prefix))
           THEN "static"
      ELSE IF MatchesPathConverter(rest) THEN "static_files"
      ELSE "none"

\* the methods a rule accepts
MethodAllowed(endpoint, method) ==
  IF endpoint = "login" THEN method \in {"GET", "POST"} ELSE method = "GET"

(***************************************************************************)
(* The requests and the filesystems the model ranges over.                 *)
(***************************************************************************)
w_foo_md == <<"f","o","o",".","m","d">>

w_gone_md == <<"g","o","n","e",".","m","d">>

w_x_dotdot_md == <<"x",".",".","m","d">>

w_Active == <<"A","c","t","i","v","e">>

w_private == <<"p","r","i","v","a","t","e">>

w_etc == <<"e","t","c">>

w_passwd == <<"p","a","s","s","w","d">>

w_secret_md == <<"s","e","c","r","e","t",".","m","d">>

w_style_css == <<"s","t","y","l","e",".","c","s","s">>

w_data_json == <<"d","a","t","a",".","j","s","o","n">>

w_app_js == <<"a","p","p",".","j","s">>

w_x_json == <<"x",".","j","s","o","n">>

w_sub == <<"s","u","b">>

w_unknown == <<"u","n","k","n","o","w","n">>

w_key_md == <<"k","e","y",".","m","d">>

w_Knowledge == <<"K","n","o","w","l","e","d","g","e">>

u_RAFY_sp == <<"R","A","F","Y"," ">>

u_sp_rYan_tab == <<" ","r","Y","a","n","\t">>

u_r_afy == <<"r"," ","a","f","y">>

u_rafyy == <<"r","a","f","y","y">>

u_bob == <<"b","o","b">>

p_Benji2026 == <<"B","e","n","j","i","2","0","2","6">>

p_benji2026_sp == <<"b","e","n","j","i","2","0","2","6"," ">>

Url(segs) == <<"/">> \o JoinSlash(segs)

Get(path) == [method |-> "GET", path |-> path, form |-> EmptyDict]

Post(path, form) == [method |-> "POST", path |-> path, form |-> form]

NoRequest == [method |-> "", path |-> <<>>, form |-> EmptyDict]

TaskUrls ==
  { Url(<<w_api, w_task, w_active, w_foo_md>>),
    Url(<<w_api, w_task, w_active, w_gone_md>>),
    Url(<<w_api, w_task, w_active, w_dotdot>>),
    Url(<<w_api, w_task, w_active, w_x_dotdot_md>>),
    Url(<<w_api, w_task, w_completed, w_foo_md>>),
    Url(<<w_api, w_task, w_Active, w_foo_md>>),
    Url(<<w_api, w_task, w_private, w_foo_md>>),
    Url(<<w_api, w_task, w_private, w_dotdot>>),
    Url(<<w_api, w_task, w_dotdot, w_secret_md>>) }

DocUrls ==
  { Url(<<w_api, w_doc, w_knowledge, w_youtube_md>>),
    Url(<<w_api, w_doc, w_knowledge, w_infra_md>>),
    Url(<<w_api, w_doc, w_shorts, w_DEPLOY_md>>),
    Url(<<w_api, w_doc, w_unknown, w_key_md>>),
    Url(<<w_api, w_doc, w_dot, w_knowledge, w_youtube_md>>),
    Url(<<w_api, w_doc, w_knowledge, w_dotdot, w_knowledge, w_youtube_md>>),
    Url(<<w_api, w_doc, w_dotdot, w_secret_md>>) }

StaticUrls ==
  { Url(<<w_style_css>>), Url(<<w_package_json>>), Url(<<w_data_json>>),
    Url(<<w_dotdot, w_secret_md>>),
    Url(<<w_sub, w_dotdot, w_dotdot, w_tasks, w_private, w_foo_md>>),
    Url(<<w_api, w_foo_md>>),
    Url(<<w_api, w_x_json>>),
    Url(<<w_api, w_task, w_dotdot, w_etc, w_passwd>>),
    Url(<<w_static, w_app_js>>) }

FixedUrls ==
  { Url(<<>>), Url(<<w_login>>), Url(<<w_logout>>), Url(<<w_health>>),
    Url(<<w_dashboard_data_json>>) }

Usernames == {w_rafy, u_RAFY_sp, u_sp_rYan_tab, u_r_afy, u_rafyy, u_bob}

\* a form with both fields, or with one or both fields missing
LoginForms ==
  { [username |-> u, password |-> w_benji2026] : u \in Usernames }
  \cup { [username |-> w_rafy, password |-> p_Benji2026],
         [username |-> w_rafy, password |-> p_benji2026_sp],
         [username |-> u_bob, password |-> p_Benji2026],
         [username |-> w_rafy],
         [password |-> w_benji2026],
         EmptyDict }

Requests ==
  { Get(u) : u \in FixedUrls \cup TaskUrls \cup DocUrls \cup StaticUrls }
  \cup { Post(Url(<<w_login>>), f) : f \in LoginForms }
  \cup { Post(Url(<<w_logout>>), EmptyDict) }

\* the requests each rule receives
RequestsFor(ep) ==
  { r \in Requests : Endpoint(r.path) = ep /\ MethodAllowed(ep, r.method) }

LoginRequests == RequestsFor("login")

LogoutRequests == RequestsFor("logout")

IndexRequests == RequestsFor("index")

DashboardDataRequests == RequestsFor("dashboard_data")

StaticFilesRequests == RequestsFor("static_files")

FlaskStaticRequests == RequestsFor("static")

TaskRequests == RequestsFor("get_task_content")

DocRequests == RequestsFor("get_doc_content")

HealthRequests == RequestsFor("health")

RefusedRequests ==
  { r \in Requests : Endpoint(r.path) # "none"
                      /\ ~MethodAllowed(Endpoint(r.path), r.method) }

DashboardFiles ==
  { DASHBOARD_DIR \o p : p \in { <<w_index_html>>, <<w_dashboard_data_json>>,
                                 <<w_style_css>>, <<w_package_json>>, <<w_data_json>>,
                                 <<w_static, w_app_js>>, <<w_api, w_foo_md>>,
                                 <<w_api, w_x_json>>, <<w_api, w_etc, w_passwd>> } }

TaskFiles ==
  { TASKS_DIR \o p : p \in { <<w_active, w_foo_md>>, <<w_completed, w_foo_md>>,
                             <<w_private, w_foo_md>>, <<w_Active, w_foo_md>> } }

DocFiles == { allowed_docs[k] : k \in DOMAIN allowed_docs }

\* files no route is meant to serve
OtherFiles ==
  { <<w_etc, w_passwd>>, base_dir \o <<w_secret_md>>,
    base_dir \o <<w_knowledge, w_secret_md>>, <<w_secret_md>>,
    TASKS_DIR \o <<w_foo_md>> }

FsChoices ==
  { [files |-> DashboardFiles \cup TaskFiles \cup OtherFiles
               \cup (DocFiles \ { base_dir \o <<w_knowledge, w_infra_md>> })
               \cup { base_dir \o <<w_knowledge, w_infra_md, w_foo_md>> },
     noread |-> { DASHBOARD_DIR \o <<w_style_css>>,
                  TASKS_DIR \o <<w_completed, w_foo_md>>,
                  base_dir \o <<w_knowledge, w_youtube_md>> }],
    [files |-> { DASHBOARD_DIR \o <<w_index_html>> } \cup OtherFiles,
     noread |-> {}] }

(***************************************************************************)
(* The state machine: one session, one request at a time.  hist is the     *)
(* record of the last HistLen requests that were a POST /login or a        *)
(* /logout, the only requests that write the session.                      *)
(***************************************************************************)
HistLen == 3

\* the requests hist records: POST /login and /logout
Recorded(r, ep) == (ep = "login" /\ r.method = "POST") \/ ep = "logout"

HistEntry(r, ep, before, res) ==
  [ep |-> ep, valid |-> (ep = "login" /\ CredentialsValid(r.form)),
   resp |-> res.resp,
   attempts |-> DictGet(before, "login_attempts", 0),
   authenticated |-> is_authenticated(before)]

Remember(h, e) ==
  IF Len(h) < HistLen THEN Append(h, e) ELSE Append(Tail(h), e)

Init ==
  /\ session = EmptyDict
  /\ fs \in FsChoices
  /\ req = NoRequest
  /\ resp = NoResponse
  /\ log = <<>>
  /\ pre = EmptyDict
  /\ hist = <<>>
  /\ flight = <<>>

\* the request is served: its response is sent and the session is saved
Commit(r, ep, result) ==
  \E res \in {result} :
    /\ req' = r
    /\ resp' = res.resp
    /\ log' = res.log
    /\ session' = res.session
    /\ pre' = session
    /\ hist' = IF Recorded(r, ep)
               THEN Remember(hist, HistEntry(r, ep, session, res))
               ELSE hist
    /\ fs' = fs
    /\ flight' = flight

Login ==
  \E r \in LoginRequests : Commit(r, "login", login(session, r.method, r.form))

Logout ==
  \E r \in LogoutRequests : Commit(r, "logout", logout(session))

Index ==
  \E r \in IndexRequests : Commit(r, "index", index(fs, session))

DashboardData ==
  \E r \in DashboardDataRequests :
    Commit(r, "dashboard_data", dashboard_data(fs, session))

StaticFiles ==
  \E r \in StaticFilesRequests :
    Commit(r, "static_files", static_files(fs, session, PathRest(r.path)))

\* Flask's own /static/<path:filename> rule, serving DASHBOARD_DIR/static
FlaskStatic ==
  \E r \in FlaskStaticRequests :
    Commit(r, "static",
           send_from_directory(fs, session, DASHBOARD_DIR \o <<w_static>>,
                               PathArg(PathRest(r.path), flask_static_prefix)))

GetTaskContent ==
  \E r \in TaskRequests :
    LET segs == SplitSlash(PathRest(r.path))
    IN  Commit(r, "get_task_content",
               get_task_content(fs, session, r.path, segs[3], segs[4]))

GetDocContent ==
  \E r \in DocRequests :
    Commit(r, "get_doc_content",
           get_doc_content(fs, session, r.path,
                           PathArg(PathRest(r.path), api_doc_prefix)))

Health ==
  \E r \in HealthRequests : Commit(r, "health", health(session))

\* a rule matches the path but not the method
MethodNotAllowed ==
  \E r \in RefusedRequests :
    Commit(r, "none",
           Result([NoResponse EXCEPT !.status = 405, !.kind = "method_not_allowed"],
                  <<>>, session))

Next ==
  \/ Login
  \/ Logout
  \/ Index
  \/ DashboardData
  \/ StaticFiles
  \/ FlaskStatic
  \/ GetTaskContent
  \/ GetDocContent
  \/ Health
  \/ MethodNotAllowed

Spec == Init /\ [][Next]_vars

(***************************************************************************)
(* Concurrent logins of one session.  The session lives in the signed      *)
(* cookie the client holds: a request carries the cookie the client held   *)
(* when it was sent, its handler works on that value, and the client keeps *)
(* the cookie of each response it receives.  flight holds the POST /login  *)
(* requests sent, in the order they were sent; here session is the cookie  *)
(* in the client's hands.                                                  *)
(***************************************************************************)
MaxFlight == 3

\* failed logins: an unknown user, and a valid user with a wrong password
RaceForms ==
  { [username |-> u_bob, password |-> w_benji2026],
    [username |-> w_rafy, password |-> p_Benji2026] }

\* the session most recently saved by a handler
LastSaved ==
  IF \A i \in 1..Len(flight) : flight[i].n = 0
  THEN EmptyDict
  ELSE flight[CHOOSE i \in 1..Len(flight) :
                \A j \in 1..Len(flight) : flight[j].n <= flight[i].n].saved

\* a session store on the server, read instead of the cookie
open_session_server_side(carried, latest) == latest

\* the session a handler works on: the one the request's cookie carries
open_session(carried, latest) == carried

\* the client sends a POST /login with the cookie it holds
RaceSend ==
  /\ Len(flight) < MaxFlight
  /\ \E f \in RaceForms :
       flight' = Append(flight, [form |-> f, cookie |-> session, state |-> "sent",
                                 n |-> 0, resp |-> NoResponse, saved |-> session])
  /\ UNCHANGED <<session, fs, req, resp, log, pre, hist>>

\* the server runs login on a request it has received
RaceHandle ==
  /\ \E i \in 1..Len(flight) :
       /\ flight[i].state = "sent"
       /\ \E res \in {login(open_session(flight[i].cookie, LastSaved), "POST",
                              flight[i].form)} :
            flight' = [flight EXCEPT ![i] =
                         [@ EXCEPT !.state = "answered",
                                   !.n = 1 + Cardinality({j \in 1..Len(flight) :
                                                            flight[j].n > 0}),
                                   !.resp = res.resp,
                                   !.saved = res.session]]
  /\ UNCHANGED <<session, fs, req, resp, log, pre, hist>>

\* the client receives a response and keeps its cookie
RaceReceive ==
  /\ \E i \in 1..Len(flight) :
       /\ flight[i].state = "answered"
       /\ session' = flight[i].saved
       /\ flight' = [flight EXCEPT ![i] = [@ EXCEPT !.state = "received"]]
  /\ UNCHANGED <<fs, req, resp, log, pre, hist>>

NextRace == RaceSend \/ RaceHandle \/ RaceReceive

SpecRace == Init /\ [][NextRace]_vars

TypeOK ==
  /\ DOMAIN session \subseteq {"authenticated", "username", "login_attempts", "_permanent"}
  /\ fs \in FsChoices
  /\ Len(hist) <= HistLen

(***************************************************************************)
(* Properties.  req is the request served last, pre the session it found,  *)
(* resp its response, log what its handler did, session what it left.      *)
(***************************************************************************)
ReqEndpoint == IF req = NoRequest THEN "none" ELSE Endpoint(req.path)

ReqSegs == SplitSlash(PathRest(req.path))

IsFsOp(o) == o.op \in {"safe_join", "isfile", "exists", "read"}

NoFsAccess == \A i \in 1..Len(log) : ~IsFsOp(log[i])

ApiPrefix == <<"/">> \o w_api \o <<"/">>

\* C1: an unauthenticated GET of any path that begins with /api/ is answered
\* 401, and no path resolution, existence check or read is made for it.
C1_UnauthenticatedApiIs401 ==
  (req.method = "GET" /\ StartsWith(req.path, ApiPrefix) /\ ~is_authenticated(pre))
    => (resp.status = 401 /\ NoFsAccess)

\* the places the routes are meant to serve from
InServedArea(p) ==
  \/ IsPrefix(DASHBOARD_DIR, p)
  \/ \E fo \in {w_active, w_next, w_waiting, w_completed} :
        IsPrefix(TASKS_DIR \o <<fo>>, p)
  \/ \E k \in DOMAIN allowed_docs : p = allowed_docs[k]

\* C2: whatever the request, a file whose content a response carries lies in
\* the dashboard directory, in an allowlisted task folder or is an
\* allowlisted document; so does every file a handler reads.
C2_OnlyServedAreaReadable ==
  /\ resp.content # <<>> => (resp.content \in fs.files /\ InServedArea(resp.content))
  /\ \A i \in 1..Len(log) :
        (log[i].op = "read" /\ IsFile(fs, log[i].path))
          => InServedArea(OsResolve(log[i].path))

\* a request whose path holds ".." got the content of a file, and files
\* outside the served area exist
C2_Witness ==
  /\ req # NoRequest
  /\ Contains(req.path, w_dotdot)
  /\ resp.status = 200 /\ resp.content # <<>>
  /\ \E p \in fs.files : ~InServedArea(p)

UpperOf(c) ==
  IF \E i \in 1..26 : LowerLetters[i] = c
  THEN UpperLetters[CHOOSE i \in 1..26 : LowerLetters[i] = c]
  ELSE c

\* u is name with some letters in upper case
IsCaseVariant(u, name) ==
  /\ Len(u) = Len(name)
  /\ \A i \in 1..Len(name) : u[i] = name[i] \/ u[i] = UpperOf(name[i])

\* u is a case variant of name between two runs of whitespace
IsPaddedCaseVariant(u, name) ==
  \E i \in 0..Len(u) :
    /\ i + Len(name) <= Len(u)
    /\ \A k \in 1..i : u[k] \in {" ", "\t", "\n"}
    /\ \A k \in (i + Len(name) + 1)..Len(u) : u[k] \in {" ", "\t", "\n"}
    /\ IsCaseVariant(SubSeq(u, i + 1, i + Len(name)), name)

\* the credentials the specification accepts
AcceptedPair(form) ==
  /\ "username" \in DOMAIN form
  /\ "password" \in DOMAIN form
  /\ \E name \in {w_rafy, w_ryan} : IsPaddedCaseVariant(form["username"], name)
  /\ form["password"] = w_benji2026

IsLoginPost == req.method = "POST" /\ ReqEndpoint = "login"

IsFailedLogin(e) == e.ep = "login" /\ ~e.valid

\* the last three recorded requests were failed logins, the first of them
\* made with a counter of 0
ThreeFailuresFromZero ==
  /\ Len(hist) >= 3
  /\ \A i \in (Len(hist) - 2)..Len(hist) : IsFailedLogin(hist[i])
  /\ hist[Len(hist) - 2].attempts = 0

\* C3: of three failed POST /login in a row that start from a counter of 0,
\* the first two re-render the form with the error marker, the third
\* redirects to the external URL, and the counter is then cleared.
C3_ThirdFailureRedirectsAway ==
  ThreeFailuresFromZero =>
    /\ hist[Len(hist) - 2].resp = LoginPage(TRUE)
    /\ hist[Len(hist) - 1].resp = LoginPage(TRUE)
    /\ hist[Len(hist)].resp = Redirect("https://raom.kr")
    /\ "login_attempts" \notin DOMAIN session

C3_Witness == ThreeFailuresFromZero /\ IsLoginPost /\ ~AcceptedPair(req.form)

\* C4: a POST /login with valid credentials, from any session state, leaves
\* the counter cleared, authenticated=true, the normalized username, a
\* permanent session of 30 days, and answers with a redirect to /.
C4_SuccessfulLoginState ==
  (IsLoginPost /\ AcceptedPair(req.form)) =>
    /\ "login_attempts" \notin DOMAIN session
    /\ DictGet(session, "authenticated", FALSE) = TRUE
    /\ "username" \in DOMAIN session
    /\ session["username"] \in {w_rafy, w_ryan}
    /\ IsPaddedCaseVariant(req.form["username"], session["username"])
    /\ DictGet(session, "_permanent", FALSE) = TRUE
    /\ SessionLifetime(session) = 2592000
    /\ resp = Redirect("/")

\* a valid login with a padded, upper-case username, from an authenticated
\* session that had two failures counted
C4_Witness ==
  /\ IsLoginPost /\ AcceptedPair(req.form)
  /\ DictGet(pre, "login_attempts", 0) = 2
  /\ is_authenticated(pre)
  /\ req.form["username"] # session["username"]

\* C5: POST /login succeeds exactly when the username is, up to case and
\* surrounding whitespace, rafy or ryan and the password is the secret,
\* character for character; anything else, a missing field included, fails.
C5_SuccessIffAccepted ==
  IsLoginPost =>
    /\ (resp = Redirect("/")) <=> AcceptedPair(req.form)
    /\ ~AcceptedPair(req.form) =>
          /\ resp \in {LoginPage(TRUE), Redirect("https://raom.kr")}
          /\ is_authenticated(session) = is_authenticated(pre)

\* a login that succeeds only because the username is normalized
C5_Witness ==
  /\ IsLoginPost
  /\ AcceptedPair(req.form)
  /\ req.form["username"] \notin {w_rafy, w_ryan}
  /\ resp = Redirect("/")

IsLogout == req.method = "GET" /\ ReqEndpoint = "logout"

\* the recorded request before the last one was a logout too
SecondLogout ==
  IsLogout /\ Len(hist) >= 2 /\ hist[Len(hist) - 1].ep = "logout"

\* C6: every GET /logout answers with a redirect to / and leaves
\* authenticated false, and a logout that follows a logout leaves the
\* session as it found it.
C6_LogoutIdempotent ==
  IsLogout =>
    /\ resp = Redirect("/")
    /\ ~is_authenticated(session)
    /\ hist[Len(hist)].ep = "logout"
    /\ SecondLogout => session = pre

\* two logouts in a row, the first one from an authenticated session
C6_Witness == SecondLogout /\ hist[Len(hist) - 1].authenticated

IsTaskRequest == req.method = "GET" /\ ReqEndpoint = "get_task_content"

IsDocRequest == req.method = "GET" /\ ReqEndpoint = "get_doc_content"

ReqFolder == ReqSegs[3]

ReqFilename == ReqSegs[4]

ReqDocPath == SubSeq(req.path, Len(ApiPrefix) + Len(w_doc) + 2, Len(req.path))

\* x has two dots in a row
HasDotDot(x) == \E i \in 1..(Len(x) - 1) : x[i] = "." /\ x[i + 1] = "."

TraversalRequested ==
  IF IsTaskRequest THEN HasDotDot(ReqFolder) \/ HasDotDot(ReqFilename)
  ELSE HasDotDot(ReqDocPath)

IsValidationOp(o) == o.op \in {"traversal_check", "folder_allowlist", "doc_allowlist"}

\* C7: an authenticated request to the task or the document route whose
\* folder, filename or doc_path contains ".." is answered 400 "Invalid path"
\* with nothing done but the traversal test; every validation failure comes
\* without a filesystem access, and no validation follows such an access.
C7_ValidationBeforeFilesystem ==
  ((IsTaskRequest \/ IsDocRequest) /\ is_authenticated(pre)) =>
    /\ TraversalRequested =>
          /\ resp = JsonError("Invalid path", 400)
          /\ \A i \in 1..Len(log) : log[i].op = "traversal_check"
    /\ resp.error \in {"Invalid path", "Invalid folder", "Document not allowed"}
          => NoFsAccess
    /\ \A i \in 1..Len(log) : \A j \in (i + 1)..Len(log) :
          IsFsOp(log[i]) => ~IsValidationOp(log[j])

\* a document path with ".." inside that, resolved, would name an
\* allowlisted file that exists
C7_Witness ==
  /\ IsDocRequest /\ is_authenticated(pre)
  /\ HasDotDot(ReqDocPath) /\ ReqDocPath # w_dotdot
  /\ IsFile(fs, base_dir \o SplitSlash(ReqDocPath))
  /\ resp.status = 400

UnderApiTask == StartsWith(req.path, ApiPrefix \o w_task \o <<"/">>)

HasDotDotSegment == \E i \in 1..Len(ReqSegs) : ReqSegs[i] = w_dotdot

EtcPasswdUrl == Url(<<w_api, w_task, w_dotdot, w_etc, w_passwd>>)

\* C8 as stated: for an authenticated session every GET under /api/task/
\* with a ".." segment, /api/task/../etc/passwd among them, is answered
\* 400 {"error": "Invalid path"}.
C8_TraversalUnderTaskIs400 ==
  (req.method = "GET" /\ is_authenticated(pre) /\ UnderApiTask /\ HasDotDotSegment)
    => resp = JsonError("Invalid path", 400)

\* C8 amended: such a request is answered 400 "Invalid path" when exactly
\* two segments follow /api/task/; otherwise it is served by the static
\* route, never with 400, and only from the dashboard directory:
\* /api/task/../etc/passwd gets 404, or the dashboard file api/etc/passwd.
C8_TraversalUnderTaskByRoute ==
  (req.method = "GET" /\ is_authenticated(pre) /\ UnderApiTask /\ HasDotDotSegment)
    => IF Len(ReqSegs) = 4
       THEN ReqEndpoint = "get_task_content" /\ resp = JsonError("Invalid path", 400)
       ELSE /\ ReqEndpoint = "static_files"
            /\ resp.status \in {200, 404, 500}
            /\ resp.kind \in {"file", "not_found", "internal_error"}
            /\ resp.content # <<>> => IsPrefix(DASHBOARD_DIR, resp.content)
            /\ req.path = EtcPasswdUrl =>
                  \/ resp = NotFound
                  \/ resp.content = DASHBOARD_DIR \o <<w_api, w_etc, w_passwd>>

\* /api/task/../etc/passwd answered with a file of the dashboard directory
C8_Witness ==
  /\ req.method = "GET" /\ is_authenticated(pre)
  /\ req.path = EtcPasswdUrl
  /\ resp.status = 200

\* C9: an authenticated request to the task route whose folder is not,
\* letter for letter, active, next, waiting or completed is answered 400
\* and no file is looked up or read, whatever the filename.
C9_FolderOutsideAllowlistRejected ==
  (IsTaskRequest /\ is_authenticated(pre)
     /\ ReqFolder \notin {w_active, w_next, w_waiting, w_completed})
    => /\ resp.status = 400 /\ resp.kind = "json_error"
       /\ NoFsAccess

\* a folder that differs from an allowlisted one by case only, and that
\* holds the requested file
C9_Witness ==
  /\ IsTaskRequest /\ is_authenticated(pre)
  /\ ReqFolder \notin {w_active, w_next, w_waiting, w_completed}
  /\ Lower(ReqFolder) = w_active
  /\ IsFile(fs, TASKS_DIR \o <<ReqFolder, ReqFilename>>)
  /\ resp = JsonError("Invalid folder", 400)

DocRequestWithoutTraversal ==
  IsDocRequest /\ is_authenticated(pre) /\ ~HasDotDot(ReqDocPath)

DocServed(k) ==
  /\ resp.status = 200
  /\ resp.content = allowed_docs[k]
  /\ resp.path = k
  /\ resp.filename = allowed_docs[k][Len(allowed_docs[k])]

\* C10 as stated: 403 for a key that is not allowlisted, 404 for an
\* allowlisted key whose file does not exist, and 200 with content, key and
\* file name whenever the file exists.
C10_DocThreeOutcomes ==
  DocRequestWithoutTraversal =>
    IF ReqDocPath \notin DOMAIN allowed_docs
    THEN resp = JsonError("Document not allowed", 403)
    ELSE IF ~Exists(fs, allowed_docs[ReqDocPath])
    THEN resp = JsonError("File not found", 404)
    ELSE DocServed(ReqDocPath)

\* C10 amended: as stated, except that a mapped path which exists is served
\* with 200 only when it can be opened and read; when open() or read()
\* raises, the response is 500 with the error message.
C10_DocFourOutcomes ==
  DocRequestWithoutTraversal =>
    IF ReqDocPath \notin DOMAIN allowed_docs
    THEN resp = JsonError("Document not allowed", 403) /\ NoFsAccess
    ELSE IF ~Exists(fs, allowed_docs[ReqDocPath])
    THEN resp = JsonError("File not found", 404)
    ELSE IF Readable(fs, allowed_docs[ReqDocPath])
    THEN DocServed(ReqDocPath)
    ELSE resp.status = 500 /\ resp.kind = "json_error" /\ resp.content = <<>>

\* an allowlisted document served with its content
C10_Witness ==
  /\ DocRequestWithoutTraversal
  /\ ReqDocPath \in DOMAIN allowed_docs
  /\ DocServed(ReqDocPath)
  /\ resp.content \in fs.files

IsStaticFilesRequest == req.method = "GET" /\ ReqEndpoint = "static_files"

\* the path after the leading slash, as the static route receives it
ReqFilename1 == SubSeq(req.path, 2, Len(req.path))

\* the name ends in the five characters .json
HasJsonExtension(x) ==
  /\ Len(x) >= 5
  /\ x[Len(x) - 4] = "." /\ x[Len(x) - 3] = "j" /\ x[Len(x) - 2] = "s"
  /\ x[Len(x) - 1] = "o" /\ x[Len(x)] = "n"

\* the request is answered as send_from_directory answers, session or not
ServedUngated ==
  /\ resp.status # 401
  /\ resp.kind \in {"file", "not_found", "internal_error"}
  /\ (DASHBOARD_DIR \o SplitSlash(ReqFilename1)) \in (fs.files \ fs.noread)
       => resp = FileResponse(DASHBOARD_DIR \o SplitSlash(ReqFilename1))

IsGatedRequest ==
  /\ req.method = "GET"
  /\ \/ ReqEndpoint \in {"index", "dashboard_data", "get_task_content", "get_doc_content"}
     \/ /\ ReqEndpoint = "static_files"
        /\ HasJsonExtension(ReqFilename1) /\ ReqFilename1 # w_package_json

\* C12: on every gated route an unauthenticated request is answered 401
\* with a JSON error when its path begins with /api/ and with a redirect to
\* /login otherwise, and an authenticated request is let through.
C12_SameGateOnEveryGatedRoute ==
  IsGatedRequest =>
    IF ~is_authenticated(pre)
    THEN IF StartsWith(req.path, ApiPrefix)
         THEN resp = JsonError("Unauthorized", 401)
         ELSE resp = Redirect("/login")
    ELSE resp # JsonError("Unauthorized", 401) /\ resp # Redirect("/login")

HasKnownUsername(form) ==
  /\ "username" \in DOMAIN form
  /\ \E name \in {w_rafy, w_ryan} : IsPaddedCaseVariant(form["username"], name)

FailedForms == { f \in LoginForms : ~AcceptedPair(f) }

UnknownUserForms == { f \in FailedForms : ~HasKnownUsername(f) }

WrongPasswordForms == { f \in FailedForms : HasKnownUsername(f) }

\* C13: a failed POST /login leaves the response and the session that any
\* other failed form would have left from the same session, be its
\* username unknown or its password wrong.
C13_FailuresIndistinguishable ==
  (IsLoginPost /\ ~AcceptedPair(req.form)) =>
    \A g \in FailedForms :
      /\ login(pre, "POST", g).resp = resp
      /\ login(pre, "POST", g).session = session

\* an unknown username tripping the threshold, as a wrong password would
C13_Witness ==
  /\ IsLoginPost
  /\ req.form \in UnknownUserForms
  /\ WrongPasswordForms # {}
  /\ resp = Redirect("https://raom.kr")

AcceptedForms == { f \in LoginForms : AcceptedPair(f) }

\* C14: in every reachable session state, the one right after a threshold
\* trip included, a POST /login with valid credentials would succeed, and
\* one that was made did.
C14_NoLockout ==
  /\ \A f \in AcceptedForms :
        /\ login(session, "POST", f).resp = Redirect("/")
        /\ is_authenticated(login(session, "POST", f).session)
  /\ (IsLoginPost /\ AcceptedPair(req.form)) =>
        (resp = Redirect("/") /\ is_authenticated(session))

\* a valid login right after the third failure was redirected away
C14_Witness ==
  /\ IsLoginPost /\ AcceptedPair(req.form)
  /\ Len(hist) >= 2
  /\ hist[Len(hist) - 1].resp = Redirect("https://raom.kr")
  /\ ~hist[Len(hist) - 1].authenticated
  /\ is_authenticated(session)

\* C15: a request other than POST /login and GET /logout, allowed or
\* denied, leaves the session as it found it.
C15_OtherRequestsKeepSession ==
  (req # NoRequest /\ ~IsLoginPost /\ ~IsLogout) =>
    /\ session = pre
    /\ DictGet(session, "authenticated", FALSE) = DictGet(pre, "authenticated", FALSE)
    /\ DictGet(session, "username", <<>>) = DictGet(pre, "username", <<>>)
    /\ DictGet(session, "login_attempts", 0) = DictGet(pre, "login_attempts", 0)

\* a gated request denied to a session with two failures counted
C15_Witness ==
  /\ IsGatedRequest
  /\ ~is_authenticated(pre)
  /\ DictGet(pre, "login_attempts", 0) = 2
  /\ resp.status \in {401, 302}

LastEntry == hist[Len(hist)]

\* C17: the stored login_attempts is absent, 1 or 2, never 3 or more, and
\* it is absent when the last request that wrote the session was a
\* successful login, a threshold trip or a logout.
C17_AttemptsBelowThreshold ==
  /\ "login_attempts" \in DOMAIN session => session["login_attempts"] \in {1, 2}
  /\ (/\ hist # <<>>
      /\ \/ LastEntry.ep = "logout"
         \/ LastEntry.resp = Redirect("/")
         \/ LastEntry.resp = Redirect("https://raom.kr"))
       => "login_attempts" \notin DOMAIN session

\* the session right after a threshold trip
C17_Witness ==
  /\ IsLoginPost
  /\ hist # <<>>
  /\ LastEntry.attempts = 2
  /\ resp = Redirect("https://raom.kr")
  /\ "login_attempts" \notin DOMAIN session

\* C18: the session starts unauthenticated; authenticated becomes true only
\* in a POST /login with valid credentials, a GET /logout leaves it false,
\* and while it is true the stored username is rafy or ryan.
C18_AuthenticatedOnlyByValidLogin ==
  /\ ~is_authenticated(session)
  /\ [][ /\ is_authenticated(session') =>
              /\ "username" \in DOMAIN session'
              /\ session'["username"] \in {w_rafy, w_ryan}
         /\ (is_authenticated(session') /\ ~is_authenticated(session)) =>
              /\ req'.method = "POST"
              /\ Endpoint(req'.path) = "login"
              /\ AcceptedPair(req'.form)
         /\ (req'.method = "GET" /\ Endpoint(req'.path) = "logout") =>
              ~is_authenticated(session') ]_vars

\* authenticated again by a valid login made after a logout
C18_Witness ==
  /\ is_authenticated(session)
  /\ IsLoginPost /\ AcceptedPair(req.form)
  /\ Len(hist) >= 3
  /\ hist[Len(hist) - 1].ep = "logout"
  /\ hist[Len(hist) - 1].authenticated
  /\ session["username"] \in {w_rafy, w_ryan}

\* C19: a logout empties the session, the counter included, so the failure
\* recorded after a logout starts from 0, and the external redirect answers
\* only a failure that follows two failures with no logout in between.
C19_LogoutRestartsCount ==
  /\ IsLogout => (session = EmptyDict /\ "login_attempts" \notin DOMAIN session)
  /\ \A i \in 1..(Len(hist) - 1) :
        hist[i].ep = "logout" => hist[i + 1].attempts = 0
  /\ \A i \in 1..Len(hist) :
        hist[i].resp = Redirect("https://raom.kr") =>
          /\ i >= 2 => (hist[i - 1].ep = "login" /\ hist[i - 1].resp = LoginPage(TRUE))
          /\ i >= 3 => (hist[i - 2].ep = "login" /\ hist[i - 2].resp = LoginPage(TRUE))

\* two failures counted, a logout, and a further failure that gets the form
C19_Witness ==
  /\ IsLoginPost
  /\ Len(hist) >= 3
  /\ IsFailedLogin(hist[Len(hist) - 2]) /\ hist[Len(hist) - 2].attempts = 1
  /\ hist[Len(hist) - 1].ep = "logout"
  /\ IsFailedLogin(LastEntry) /\ LastEntry.resp = LoginPage(TRUE)

Handled(i) == flight[i].state \in {"answered", "received"}

CarriedCount(i) == DictGet(flight[i].cookie, "login_attempts", 0)

\* C16: a failed login is answered from the cookie it carried alone: the
\* external redirect answers exactly the requests that carried a count of
\* 2, and the count a response sets is the carried one plus 1; so failed
\* logins that all carried the same cookie leave the count raised by 1,
\* however many they are, and none of them is redirected.
C16_FailureCountedFromCarriedCookie ==
  /\ \A i \in 1..Len(flight) :
        Handled(i) =>
          /\ ~AcceptedPair(flight[i].form)
          /\ flight[i].resp = Redirect("https://raom.kr") <=> CarriedCount(i) = 2
          /\ CarriedCount(i) < 2 =>
                /\ flight[i].resp = LoginPage(TRUE)
                /\ DictGet(flight[i].saved, "login_attempts", 0) = CarriedCount(i) + 1
  /\ (\A i \in 1..Len(flight) : flight[i].state = "received" /\ CarriedCount(i) = 0)
       => DictGet(session, "login_attempts", 0) <= 1

\* three failed logins sent on the same cookie, all answered and received:
\* none was redirected away and the count stands at 1
C16_Witness ==
  /\ Len(flight) >= 3
  /\ \A i \in 1..Len(flight) :
        /\ flight[i].state = "received"
        /\ CarriedCount(i) = 0
        /\ ~AcceptedPair(flight[i].form)
        /\ flight[i].resp # Redirect("https://raom.kr")
  /\ DictGet(session, "login_attempts", 0) = 1

====
